---------------------------- MODULE Spec2Model ----------------------------
(* Model of the scrape orchestrator (services/scrape_service.py), the      *)
(* session record store (services/session_service.py), the transactional  *)
(* scope of database/connection.py and the part of the authentication     *)
(* service the orchestrator consults.                                      *)
(*                                                                         *)
(* The relational store is PostgreSQL reached through one SQLAlchemy       *)
(* Session per get_session() block (autocommit=False, autoflush=False):    *)
(*  - rows written by a block are visible to others only after its commit; *)
(*  - objects passed to add() stay pending until the next flush();         *)
(*  - after a failed statement or flush every later statement of the same  *)
(*    block raises, and leaving the block with an exception rolls back.    *)
(* Values follow the declared types of the source (Article.title is a str).*)
EXTENDS Integers, Sequences, FiniteSets, TLC

(***************************************************************************)
(* Bounds of the model                                                     *)
(***************************************************************************)
NumDates == 2          \* target dates 1..NumDates
MaxSessions == 2       \* scrape_sessions rows ever inserted
MaxUrls == 2           \* URLs one discovery returns (single invocation)
MaxSeqUrls == 1        \* URLs one discovery returns (sequences of invocations)
MaxRefs == 1           \* social references one extraction returns
MaxClock == 3          \* clock ticks (login operations)
MaxElems == 2          \* elements of the HTML of one page
MaxLocs == 2           \* <url> entries of one sitemap response
MaxTags == 2           \* elements of a tags array, tag links of a page
NumSitemaps == 2       \* sitemaps of settings.sitemap_urls

\* Optional values: Python's None is the empty tuple, a value v is <<v>>
None == <<>>
Some(v) == <<v>>
Val(o) == o[1]

Procs == {1}
Dates == 1..NumDates
Limits == {None, Some(0), Some(1)}

\* URLs of the site: base_url + "/" + path, with or without a trailing "/"
Paths == {"a", "b"}
Urls == {[path |-> "a", slash |-> FALSE], [path |-> "a", slash |-> TRUE],
         [path |-> "b", slash |-> FALSE]}
PostIds == {"p1"}
SgeIds == Paths \cup PostIds
Refs == {"r1"}
Hours == {0, 23}
PublishedAts == {None} \cup {Some(dt) : dt \in [day : Dates, hour : Hours]}

VARIABLES
    sessions,      \* scrape_sessions table: id -> row
    nextId,        \* next value of the scrape_sessions id sequence
    articles,      \* committed articles table: per sge_id its rows in
                   \* insertion order, each with its social_contents rows
    run,           \* per invocation of run_scrape: locals and DB session
    sessionFile,   \* session/session_data.json
    storageState,  \* session/storage_state.json exists
    now,           \* wall clock
    loginState,    \* session/login_state.json
    call           \* the latest call of an operation outside run_scrape:
                   \* its arguments and what it returned

vars == <<sessions, nextId, articles, run, sessionFile, storageState, now,
          loginState, call>>

(***************************************************************************)
(* Sequence helpers                                                        *)
(***************************************************************************)
Range(s) == {s[i] : i \in DOMAIN s}

Injective(s) == \A i, j \in DOMAIN s : s[i] = s[j] => i = j

SeqsUpTo(S, n) == UNION {[1..k -> S] : k \in 0..n}

Min(a, b) == IF a < b THEN a ELSE b

Max(a, b) == IF a > b THEN a ELSE b

\* Python s[:n]
SliceTo(s, n) ==
    IF n >= 0 THEN SubSeq(s, 1, Min(n, Len(s)))
    ELSE SubSeq(s, 1, Max(Len(s) + n, 0))

\* Python [x for x in s if Keep(x)]
RefLists == SeqsUpTo(Refs, MaxRefs)

RECURSIVE Filter(_, _)
Filter(s, keep) ==
    IF s = <<>> THEN <<>>
    ELSE IF Head(s) \in keep THEN <<Head(s)>> \o Filter(Tail(s), keep)
    ELSE Filter(Tail(s), keep)

(***************************************************************************)
(* services/auth_service.py, services/scrape_service.py: session check     *)
(***************************************************************************)
SESSION_TTL == 1       \* timedelta(days=7), in clock ticks

\* session_data.json: missing, unreadable, or a JSON object
NoFile == [kind |-> "absent"]
Corrupt == [kind |-> "corrupt"]

\* login_state.json is missing
NoLoginState == [kind |-> "absent"]

\* no operation outside run_scrape has been called
NoCall == [op |-> "none", seq |-> 0, at |-> 0]

\* faulty variant: the expiry time is not compared with the clock
has_valid_session_ignores_expiry(file, t) ==
    file.kind = "json"

has_valid_session(file, t) ==
    IF file.kind = "absent" THEN FALSE
    ELSE IF file.kind = "corrupt" THEN FALSE
    ELSE IF file.auth_type = "token"
         THEN ~(file.expires_at # None /\ Val(file.expires_at) # 0
                /\ t > Val(file.expires_at))
    ELSE ~(file.expires_at # None /\ t > Val(file.expires_at))

check_session == has_valid_session(sessionFile, now) /\ storageState

(***************************************************************************)
(* services/session_service.py                                             *)
(***************************************************************************)
\* faulty variant: the row is created with another status
NewSession_pending(d, t) ==
    [target_date |-> d, started_at |-> t, finished |-> FALSE,
     status |-> "pending",
     articles_found |-> 0, articles_scraped |-> 0, articles_success |-> 0,
     articles_failed |-> 0, articles_new |-> 0, articles_updated |-> 0,
     articles_skipped |-> 0, error_message |-> "",
     committed |-> FALSE]

NewSession(d, t) ==
    [target_date |-> d, started_at |-> t, finished |-> FALSE,
     status |-> "running",
     articles_found |-> 0, articles_scraped |-> 0, articles_success |-> 0,
     articles_failed |-> 0, articles_new |-> 0, articles_updated |-> 0,
     articles_skipped |-> 0, error_message |-> "",
     committed |-> FALSE]

\* rows a DB session of invocation p can read: committed ones and its own
Visible(p) ==
    {i \in DOMAIN sessions : sessions[i].committed \/ run[p].sid = i}

\* faulty variant: the filter articles_success > 0 is missing
Qualifying_any_completed(p, d) ==
    {i \in Visible(p) : /\ sessions[i].target_date = d
                        /\ sessions[i].status = "completed"}

Qualifying(p, d) ==
    {i \in Visible(p) : /\ sessions[i].target_date = d
                        /\ sessions[i].status = "completed"
                        /\ sessions[i].articles_success > 0}

\* faulty variant: ascending order, the oldest qualifying row comes first
get_session_for_date_oldest(p, d) ==
    {i \in Qualifying(p, d) :
        \A j \in Qualifying(p, d) : sessions[i].started_at <= sessions[j].started_at}

\* .order_by(started_at.desc()).first(): some row with the largest started_at
get_session_for_date(p, d) ==
    {i \in Qualifying(p, d) :
        \A j \in Qualifying(p, d) : sessions[j].started_at <= sessions[i].started_at}

has_successful_scrape_for_date(p, d) == get_session_for_date(p, d) # {}

\* faulty variant: articles_scraped is passed where articles_success belongs
complete_session_swapped(row, found, r) ==
    [row EXCEPT !.status = "completed", !.finished = TRUE,
                !.articles_found = found,
                !.articles_scraped = r.success,
                !.articles_success = r.scraped,
                !.articles_failed = r.failed,
                !.articles_new = r.new,
                !.articles_updated = r.updated,
                !.articles_skipped = r.skipped]

\* faulty variant: skipped articles are left out of articles_scraped
complete_session_scraped_excludes_skipped(row, found, r) ==
    [row EXCEPT !.status = "completed", !.finished = TRUE,
                !.articles_found = found,
                !.articles_scraped = r.success + r.failed,
                !.articles_success = r.success,
                !.articles_failed = r.failed,
                !.articles_new = r.new,
                !.articles_updated = r.updated,
                !.articles_skipped = r.skipped]

complete_session(row, found, r) ==
    [row EXCEPT !.status = "completed", !.finished = TRUE,
                !.articles_found = found,
                !.articles_scraped = r.scraped,
                !.articles_success = r.success,
                !.articles_failed = r.failed,
                !.articles_new = r.new,
                !.articles_updated = r.updated,
                !.articles_skipped = r.skipped]

fail_session(row, msg) ==
    [row EXCEPT !.status = "failed", !.finished = TRUE, !.error_message = msg]


(***************************************************************************)
(* scraper/sitemap_parser.py, services/scrape_service.py: pure helpers     *)
(***************************************************************************)
\* url.replace(base_url, "").strip("/")
extract_slug_from_url(u) == u.path

\* published_at.date()
DateOf(dt) == dt.day

\* faulty variant: an article without published_at is rejected
_is_article_for_date_requires_date(published_at, target_date) ==
    IF published_at = None THEN FALSE
    ELSE DateOf(Val(published_at)) = target_date

_is_article_for_date(published_at, target_date) ==
    IF published_at = None THEN TRUE
    ELSE DateOf(Val(published_at)) = target_date

\* new_urls[:limit] if limit else new_urls
ApplyLimit(new_urls, limit) ==
    IF limit # None /\ Val(limit) # 0 THEN SliceTo(new_urls, Val(limit))
    ELSE new_urls

(***************************************************************************)
(* The articles and social_contents tables as one DB session sees them     *)
(***************************************************************************)
\* .filter(Article.sge_id == sge_id).first() finds a row
Exists(tbl, sge_id) == tbl[sge_id] # <<>>

\* one statement the DB session has sent inside its open transaction; the
\* statements on an existing article address the row .first() returned
ApplyOp(tbl, op) ==
    IF op.op = "ins"
    THEN [tbl EXCEPT ![op.sge_id] = Append(@, [slug |-> op.slug, social |-> <<>>])]
    ELSE IF ~Exists(tbl, op.sge_id) THEN tbl
    ELSE IF op.op = "upd" THEN [tbl EXCEPT ![op.sge_id][1].slug = op.slug]
    ELSE IF op.op = "del" THEN [tbl EXCEPT ![op.sge_id][1].social = <<>>]
    ELSE [tbl EXCEPT ![op.sge_id][1].social = Append(@, op.ref)]

RECURSIVE Replay(_, _)
Replay(tbl, log) ==
    IF log = <<>> THEN tbl ELSE Replay(ApplyOp(tbl, Head(log)), Tail(log))

\* db.flush(): the pending SocialContent objects are inserted
Flush(log, pending) ==
    log \o [i \in 1..Len(pending) |->
              [op |-> "add", sge_id |-> pending[i].sge_id, slug |-> "",
               ref |-> pending[i].ref]]

\* _add_social_contents_from_dict: db.add() for each entry, no flush
_add_social_contents_from_dict(pending, sge_id, social_contents) ==
    pending \o [i \in 1..Len(social_contents) |->
                  [sge_id |-> sge_id, ref |-> social_contents[i]]]

\* _update_social_contents_from_dict: DELETE statement, then db.add()
_update_social_contents_from_dict(db, sge_id, social_contents) ==
    [db EXCEPT
       !.log = Append(@, [op |-> "del", sge_id |-> sge_id, slug |-> "",
                          ref |-> ""]),
       !.pending = _add_social_contents_from_dict(@, sge_id, social_contents)]

\* _save_article_from_dict on a DB session db = [log, pending] over the
\* committed table tbl; the result carries is_new
_save_article_from_dict(tbl, db, article_dict) ==
    LET existing == Exists(Replay(tbl, db.log), article_dict.sge_id) IN
    IF existing
    THEN LET upd == [db EXCEPT
                       !.log = Append(@, [op |-> "upd",
                                          sge_id |-> article_dict.sge_id,
                                          slug |-> article_dict.slug,
                                          ref |-> ""])]
         IN [db |-> _update_social_contents_from_dict(
                        upd, article_dict.sge_id, article_dict.social_contents),
             is_new |-> FALSE]
    ELSE LET ins == Append(db.log, [op |-> "ins",
                                    sge_id |-> article_dict.sge_id,
                                    slug |-> article_dict.slug,
                                    ref |-> ""])
         IN [db |-> [log |-> Flush(ins, db.pending),
                     pending |-> _add_social_contents_from_dict(
                                    <<>>, article_dict.sge_id,
                                    article_dict.social_contents)],
             is_new |-> TRUE]

\* _get_existing_slugs
_get_existing_slugs(tbl) ==
    UNION {{tbl[x][i].slug : i \in DOMAIN tbl[x]} : x \in SgeIds}

\* sge_ids an open transaction holds row locks on
Touched(log) == {log[i].sge_id : i \in DOMAIN log}

(***************************************************************************)
(* scraper/sync_scraper.py: what one render of a URL can return            *)
(***************************************************************************)
\* _parse_article_sync: sge_id = str(post.get("id", slug))
ArticleDicts(u) ==
    [kind : {"dict"},
     sge_id : {extract_slug_from_url(u)} \cup PostIds,
     url : {u},
     slug : {extract_slug_from_url(u)},
     published_at : PublishedAts,
     social_contents : RefLists]

\* scrape_article_sync returns a dict or None; run_in_executor can raise
RenderNone == [kind |-> "none"]
RenderRaises == [kind |-> "raise"]
RenderUnset == [kind |-> "unset"]
RenderResults(u) == {RenderNone, RenderRaises} \cup ArticleDicts(u)
AllRenderResults == UNION {RenderResults(u) : u \in Urls}

(***************************************************************************)
(* State of one invocation of ScrapeService.run_scrape                     *)
(***************************************************************************)
\* the dict run_scrape returns; session_id 0 stands for no id
Outcome(status, session_id, articles_success) ==
    [status |-> status, session_id |-> session_id,
     articles_success |-> articles_success]

NoOutcome == Outcome("none", 0, 0)

IdleRun ==
    [pc |-> "idle", target_date |-> 1, force |-> FALSE,
     sid |-> 0, found |-> 0, urls_to_scrape |-> <<>>, i |-> 0,
     scraped |-> 0, success |-> 0, failed |-> 0, new |-> 0, updated |-> 0,
     skipped |-> 0,
     rendered |-> <<>>,          \* URLs handed to the render worker, in order
     db |-> [log |-> <<>>, pending |-> <<>>],
     article_dict |-> RenderUnset, \* what the latest render produced
     saved |-> [x \in SgeIds |-> None],  \* social_contents last saved per sge_id
     txok |-> TRUE,              \* FALSE once a statement of the loop failed
     article_urls |-> <<>>,      \* what discovery returned
     existing_slugs |-> {},      \* what _get_existing_slugs returned
     limit |-> None,             \* the limit argument
     slept |-> FALSE,            \* the latest iteration reached asyncio.sleep
     single |-> FALSE,           \* the invocation is a scrape_single_article
     outcome |-> NoOutcome]

Init ==
    /\ sessions = <<>>
    /\ nextId = 1
    /\ articles = [x \in SgeIds |-> <<>>]
    /\ run = [p \in Procs |-> IdleRun]
    /\ sessionFile = NoFile
    /\ storageState = FALSE
    /\ now = 0
    /\ loginState = NoLoginState
    /\ call = NoCall

\* sitemap_parser.get_article_urls_for_date / get_all_article_urls: list(set)
DiscoveryResults(n) == {s \in SeqsUpTo(Urls, n) : Injective(s)}

(***************************************************************************)
(* database/connection.py get_session(): leaving the block                 *)
(***************************************************************************)
\* the block is left by an exception: session.rollback(); raise
Rollback(p, r) ==
    /\ sessions' = [i \in DOMAIN sessions \ {r.sid} |-> sessions[i]]
    /\ articles' = articles
    /\ run' = [run EXCEPT ![p] =
                 [r EXCEPT !.pc = "done",
                           !.db = [log |-> <<>>, pending |-> <<>>],
                           !.article_dict = RenderUnset,
                           !.outcome = Outcome("raised", 0, 0)]]

\* the block is left by `return out`: session.commit(), which flushes first;
\* a failing commit rolls back and raises
Commit(p, r, row, out, commitFails) ==
    IF commitFails \/ ~r.txok
    THEN Rollback(p, r)
    ELSE /\ sessions' = IF r.sid = 0 THEN sessions
                        ELSE [sessions EXCEPT ![r.sid] =
                                [row EXCEPT !.committed = TRUE]]
         /\ articles' = Replay(articles, Flush(r.db.log, r.db.pending))
         /\ run' = [run EXCEPT ![p] =
                      [r EXCEPT !.pc = "done",
                                !.db = [log |-> <<>>, pending |-> <<>>],
                                !.article_dict = RenderUnset,
                                !.outcome = out]]

\* run_scrape's `except Exception as e` around steps 3..7: fail_session, then
\* return failed. fail_session flushes, which raises when the block's
\* transaction is already broken.
ExceptPath(p, r, row, msg, broken, commitFails) ==
    IF broken \/ ~r.txok
    THEN Rollback(p, r)
    ELSE Commit(p, r, fail_session(row, msg),
                Outcome("failed", r.sid, 0),
                commitFails)

(***************************************************************************)
(* ScrapeService.run_scrape, lines 136-153: gate and session-row creation  *)
(***************************************************************************)
\* faulty variant: a run for a date that another invocation is working on
\* is skipped
Begin_exclusive(p, d, force, dbFails) ==
    /\ run[p].pc = "idle"
    /\ UNCHANGED <<sessionFile, storageState, loginState, call>>
    /\ LET r == [IdleRun EXCEPT !.target_date = d, !.force = force]
           busy == {q \in DOMAIN run \ {p} :
                      /\ run[q].pc \in {"created", "loop", "queued", "rendering"}
                      /\ ~run[q].single
                      /\ run[q].target_date = d}
       IN
       IF ~force /\ busy # {}
       THEN \E q \in busy :
               /\ Commit(p, r, NewSession(d, now),
                         Outcome("skipped", run[q].sid, 0), FALSE)
               /\ UNCHANGED <<nextId, now>>
       ELSE IF ~force /\ dbFails
       THEN \* the gate's query raises: outside the try, the exception escapes
            /\ Rollback(p, r)
            /\ UNCHANGED <<nextId, now>>
       ELSE IF ~force /\ has_successful_scrape_for_date(p, d)
       THEN \E existing \in get_session_for_date(p, d) :
               /\ Commit(p, r, NewSession(d, now),
                         Outcome("skipped", existing,
                                 sessions[existing].articles_success),
                         FALSE)
               /\ UNCHANGED <<nextId, now>>
       ELSE IF dbFails
       THEN \* create_session's flush raises: outside the try as well
            /\ Rollback(p, r)
            /\ UNCHANGED <<nextId, now>>
       ELSE /\ nextId <= MaxSessions
            /\ sessions' = [i \in DOMAIN sessions \cup {nextId} |->
                              IF i = nextId THEN NewSession(d, now)
                              ELSE sessions[i]]
            /\ nextId' = nextId + 1
            /\ now' = now + 1
            /\ articles' = articles
            /\ run' = [run EXCEPT ![p] =
                         [r EXCEPT !.pc = "created", !.sid = nextId]]

Begin(p, d, force, dbFails) ==
    /\ run[p].pc = "idle"
    /\ UNCHANGED <<sessionFile, storageState, loginState, call>>
    /\ LET r == [IdleRun EXCEPT !.target_date = d, !.force = force]
       IN
       IF ~force /\ dbFails
       THEN \* the gate's query raises: outside the try, the exception escapes
            /\ Rollback(p, r)
            /\ UNCHANGED <<nextId, now>>
       ELSE IF ~force /\ has_successful_scrape_for_date(p, d)
       THEN \E existing \in get_session_for_date(p, d) :
               /\ Commit(p, r, NewSession(d, now),
                         Outcome("skipped", existing,
                                 sessions[existing].articles_success),
                         FALSE)
               /\ UNCHANGED <<nextId, now>>
       ELSE IF dbFails
       THEN \* create_session's flush raises: outside the try as well
            /\ Rollback(p, r)
            /\ UNCHANGED <<nextId, now>>
       ELSE /\ nextId <= MaxSessions
            /\ sessions' = [i \in DOMAIN sessions \cup {nextId} |->
                              IF i = nextId THEN NewSession(d, now)
                              ELSE sessions[i]]
            /\ nextId' = nextId + 1
            /\ now' = now + 1
            /\ articles' = articles
            /\ run' = [run EXCEPT ![p] =
                         [r EXCEPT !.pc = "created", !.sid = nextId]]

(***************************************************************************)
(* run_scrape, lines 155-208: discovery, dedup, limit, session check       *)
(***************************************************************************)
\* faulty variant: a forced run skips the slug dedup as well
Prepare_force_skips_dedup(p, urls, limit, dbFails, executorFails, commitFails) ==
    /\ run[p].pc = "created"
    /\ UNCHANGED <<nextId, sessionFile, storageState, now, loginState, call>>
    /\ LET r0 == run[p]
           existing_slugs == _get_existing_slugs(Replay(articles, r0.db.log))
           new_urls == IF r0.force THEN urls
                       ELSE Filter(urls,
                              {u \in Urls : extract_slug_from_url(u) \notin existing_slugs})
           r == [r0 EXCEPT !.found = Len(urls),
                           !.article_urls = urls,
                           !.existing_slugs = existing_slugs,
                           !.limit = limit,
                           !.urls_to_scrape = ApplyLimit(new_urls, limit),
                           !.i = 1]
           row == [sessions[r0.sid] EXCEPT !.articles_found = Len(urls)]
       IN
       IF dbFails
       THEN \* update_session's flush or the slug query raises
            ExceptPath(p, r0, row, "db", TRUE, commitFails)
       ELSE IF ~check_session
       THEN Commit(p, r, row,
                   Outcome("auth_required", r.sid, 0),
                   commitFails)
       ELSE IF executorFails
       THEN ExceptPath(p, r, row, "executor", FALSE, commitFails)
       ELSE /\ sessions' = [sessions EXCEPT ![r.sid] = row]
            /\ articles' = articles
            /\ run' = [run EXCEPT ![p] = [r EXCEPT !.pc = "loop"]]

Prepare(p, urls, limit, dbFails, executorFails, commitFails) ==
    /\ run[p].pc = "created"
    /\ UNCHANGED <<nextId, sessionFile, storageState, now, loginState, call>>
    /\ LET r0 == run[p]
           existing_slugs == _get_existing_slugs(Replay(articles, r0.db.log))
           new_urls == Filter(urls,
                         {u \in Urls : extract_slug_from_url(u) \notin existing_slugs})
           r == [r0 EXCEPT !.found = Len(urls),
                           !.article_urls = urls,
                           !.existing_slugs = existing_slugs,
                           !.limit = limit,
                           !.urls_to_scrape = ApplyLimit(new_urls, limit),
                           !.i = 1]
           row == [sessions[r0.sid] EXCEPT !.articles_found = Len(urls)]
       IN
       IF dbFails
       THEN \* update_session's flush or the slug query raises
            ExceptPath(p, r0, row, "db", TRUE, commitFails)
       ELSE IF ~check_session
       THEN Commit(p, r, row,
                   Outcome("auth_required", r.sid, 0),
                   commitFails)
       ELSE IF executorFails
       THEN ExceptPath(p, r, row, "executor", FALSE, commitFails)
       ELSE /\ sessions' = [sessions EXCEPT ![r.sid] = row]
            /\ articles' = articles
            /\ run' = [run EXCEPT ![p] = [r EXCEPT !.pc = "loop"]]

(***************************************************************************)
(* run_scrape, lines 210-263: one iteration of the per-URL loop            *)
(***************************************************************************)
\* row locks other open transactions hold
OtherTouched(p) == UNION {Touched(run[q].db.log) : q \in DOMAIN run \ {p}}

\* what the render of the URL at the loop's position can return
CurrentResults(p) ==
    IF run[p].pc = "loop" /\ run[p].i <= Len(run[p].urls_to_scrape)
    THEN RenderResults(run[p].urls_to_scrape[run[p].i])
    ELSE {}

\* the body of the loop for the URL at the position of the local state r0,
\* given what its render returned
Iteration(p, r0, res, dbFails) ==
    /\ UNCHANGED <<sessions, nextId, articles, sessionFile, storageState, now,
                   loginState, call>>
    /\ LET url == r0.urls_to_scrape[r0.i]
           r == [r0 EXCEPT !.scraped = @ + 1,
                           !.rendered = Append(@, url),
                           !.article_dict = res,
                           !.i = @ + 1]
       IN
       IF res.kind = "raise"
       THEN \* except branch: continue without the sleep
            run' = [run EXCEPT ![p] = [r EXCEPT !.failed = @ + 1,
                                                !.slept = FALSE]]
       ELSE IF res.kind = "none"
       THEN run' = [run EXCEPT ![p] = [r EXCEPT !.failed = @ + 1,
                                                !.slept = TRUE]]
       ELSE IF ~_is_article_for_date(res.published_at, r.target_date)
       THEN \* continue without the sleep
            run' = [run EXCEPT ![p] = [r EXCEPT !.skipped = @ + 1,
                                                !.slept = FALSE]]
       ELSE IF ~r.txok \/ dbFails
       THEN \* a statement of _save_article_from_dict raises
            run' = [run EXCEPT ![p] = [r EXCEPT !.failed = @ + 1,
                                                !.txok = FALSE,
                                                !.slept = FALSE]]
       ELSE /\ res.sge_id \notin OtherTouched(p)
            /\ LET sv == _save_article_from_dict(articles, r.db, res) IN
               run' = [run EXCEPT ![p] =
                         [r EXCEPT !.db = sv.db,
                                   !.saved[res.sge_id] = Some(res.social_contents),
                                   !.success = @ + 1,
                                   !.slept = TRUE,
                                   !.new = IF sv.is_new THEN @ + 1 ELSE @,
                                   !.updated = IF sv.is_new THEN @ ELSE @ + 1]]

\* one iteration, the render included
ProcessUrl(p, res, dbFails) ==
    /\ run[p].pc = "loop"
    /\ run[p].i <= Len(run[p].urls_to_scrape)
    /\ Iteration(p, run[p], res, dbFails)

(***************************************************************************)
(* run_scrape, lines 265-298: complete_session and return                  *)
(***************************************************************************)
Finalize(p, dbFails, commitFails) ==
    /\ run[p].pc = "loop"
    /\ run[p].i > Len(run[p].urls_to_scrape)
    /\ UNCHANGED <<nextId, sessionFile, storageState, now, loginState, call>>
    /\ LET r == run[p]
           row == sessions[r.sid]
       IN
       IF ~r.txok \/ dbFails
       THEN \* complete_session's flush raises
            ExceptPath(p, r, row, "db", TRUE, commitFails)
       ELSE Commit(p, r, complete_session(row, r.found, r),
                   Outcome("completed", r.sid, r.success),
                   commitFails)

(***************************************************************************)
(* ScrapeService.scrape_single_article                                     *)
(***************************************************************************)
\* `if save_to_db and date_valid`, for a render that returned a dict
SavesSingle(res, target_date, save_to_db) ==
    /\ res.kind = "dict"
    /\ save_to_db
    /\ IF target_date = None THEN TRUE
       ELSE _is_article_for_date(res.published_at, Val(target_date))

\* what follows the render: the save in a transaction of its own and the
\* return; seeded: the browser context was given storage_state.json
AfterSingleRender(res, target_date, save_to_db) ==
    /\ SavesSingle(res, target_date, save_to_db)
       => res.sge_id \notin UNION {Touched(run[q].db.log) : q \in DOMAIN run}
    /\ articles' =
          IF SavesSingle(res, target_date, save_to_db)
          THEN LET sv == _save_article_from_dict(
                            articles, [log |-> <<>>, pending |-> <<>>], res)
               IN Replay(articles, Flush(sv.db.log, sv.db.pending))
          ELSE articles
    /\ call' = [op |-> "scrape_single_article", seq |-> 1 - call.seq,
                at |-> now, seeded |-> storageState,
                raised |-> res.kind = "raise",
                saved |-> SavesSingle(res, target_date, save_to_db)]

\* one call, the render included; no session check precedes the render
scrape_single_article(u, res, target_date, save_to_db) ==
    /\ res \in RenderResults(u)
    /\ AfterSingleRender(res, target_date, save_to_db)
    /\ UNCHANGED <<sessions, nextId, run, sessionFile, storageState, now,
                   loginState>>

(***************************************************************************)
(* Authentication files and the clock                                      *)
(***************************************************************************)
\* AuthService.save_manual_session
save_manual_session ==
    /\ sessionFile' = [kind |-> "json", auth_type |-> "cookie",
                       expires_at |-> Some(now + SESSION_TTL)]
    /\ storageState' = TRUE
    /\ UNCHANGED <<sessions, nextId, articles, run, now, loginState, call>>

\* ScrapeService.clear_session
clear_session ==
    /\ sessionFile' = NoFile
    /\ storageState' = FALSE
    /\ UNCHANGED <<sessions, nextId, articles, run, now, loginState, call>>

\* the caller has taken the returned dict (or the exception)
Return(p) ==
    /\ run[p].pc = "done"
    /\ run' = [run EXCEPT ![p] = IdleRun]
    /\ UNCHANGED <<sessions, nextId, articles, sessionFile, storageState, now,
                   loginState, call>>

(***************************************************************************)
(* Specification                                                           *)
(***************************************************************************)
RunStep(p, lists) ==
    \/ \E d \in Dates, force \in BOOLEAN, dbFails \in BOOLEAN :
          Begin(p, d, force, dbFails)
    \/ \E urls \in lists, limit \in Limits,
          dbFails, executorFails, commitFails \in BOOLEAN :
          Prepare(p, urls, limit, dbFails, executorFails, commitFails)
    \/ \E res \in CurrentResults(p), dbFails \in BOOLEAN :
          ProcessUrl(p, res, dbFails)
    \/ \E dbFails, commitFails \in BOOLEAN : Finalize(p, dbFails, commitFails)

Env ==
    \/ save_manual_session
    \/ clear_session

\* sequences of invocations of run_scrape
Next ==
    \/ \E p \in Procs : RunStep(p, DiscoveryResults(MaxSeqUrls))
    \/ \E p \in Procs : Return(p)
    \/ Env

Spec == Init /\ [][Next]_vars

\* one invocation of run_scrape, with longer discovery results
NextRun ==
    \/ \E p \in Procs : RunStep(p, DiscoveryResults(MaxUrls))
    \/ Env

SpecRun == Init /\ [][NextRun]_vars

(***************************************************************************)
(* services/scrape_service.py: overlapping invocations and the render      *)
(* worker                                                                  *)
(***************************************************************************)
MAX_WORKERS == 1       \* ProcessPoolExecutor(max_workers=1)

\* coroutines of one event loop: run_scrape tasks and scrape_single_article
Callers == {1, 2}

\* renders the worker processes of _scrape_executor are executing
Rendering == {q \in DOMAIN run : run[q].pc = "rendering"}

\* what the render a worker is executing for p can return
RenderingResults(p) ==
    IF run[p].pc = "rendering"
    THEN RenderResults(run[p].urls_to_scrape[run[p].i])
    ELSE {}

\* run_in_executor in the loop of run_scrape: the render is submitted
Submit(p) ==
    /\ run[p].pc = "loop"
    /\ run[p].i <= Len(run[p].urls_to_scrape)
    /\ run' = [run EXCEPT ![p].pc = "queued"]
    /\ UNCHANGED <<sessions, nextId, articles, sessionFile, storageState, now,
                   loginState, call>>

\* run_in_executor in scrape_single_article
SubmitSingle(p, u) ==
    /\ run[p].pc = "idle"
    /\ run' = [run EXCEPT ![p] =
                 [IdleRun EXCEPT !.pc = "queued", !.single = TRUE,
                                 !.urls_to_scrape = <<u>>, !.i = 1]]
    /\ UNCHANGED <<sessions, nextId, articles, sessionFile, storageState, now,
                   loginState, call>>

\* faulty variant: every submitted render gets a worker at once
StartRender_unbounded(p) ==
    /\ run[p].pc = "queued"
    /\ run' = [run EXCEPT ![p].pc = "rendering"]
    /\ UNCHANGED <<sessions, nextId, articles, sessionFile, storageState, now,
                   loginState, call>>

\* a worker of the one executor of the process takes a queued render
StartRender(p) ==
    /\ run[p].pc = "queued"
    /\ Cardinality(Rendering) < MAX_WORKERS
    /\ run' = [run EXCEPT ![p].pc = "rendering"]
    /\ UNCHANGED <<sessions, nextId, articles, sessionFile, storageState, now,
                   loginState, call>>

\* the render of run_scrape returns and the iteration goes on
FinishRender(p, res, dbFails) ==
    /\ run[p].pc = "rendering"
    /\ ~run[p].single
    /\ res \in RenderingResults(p)
    /\ Iteration(p, [run[p] EXCEPT !.pc = "loop"], res, dbFails)

\* the render of scrape_single_article returns
FinishSingle(p, res, target_date, save_to_db) ==
    /\ run[p].pc = "rendering"
    /\ run[p].single
    /\ res \in RenderingResults(p)
    /\ AfterSingleRender(res, target_date, save_to_db)
    /\ run' = [run EXCEPT ![p] =
                 [@ EXCEPT !.pc = "done",
                           !.rendered = <<run[p].urls_to_scrape[1]>>,
                           !.article_dict = res,
                           !.outcome = Outcome(IF res.kind = "raise" THEN "raised"
                                               ELSE "single", 0, 0)]]
    /\ UNCHANGED <<sessions, nextId, sessionFile, storageState, now, loginState>>

\* a token session that outlives the invocations is saved
InitConc ==
    /\ sessions = <<>>
    /\ nextId = 1
    /\ articles = [x \in SgeIds |-> <<>>]
    /\ run = [p \in Callers |-> IdleRun]
    /\ sessionFile = [kind |-> "json", auth_type |-> "token",
                      expires_at |-> Some(MaxSessions)]
    /\ storageState = TRUE
    /\ now = 0
    /\ loginState = NoLoginState
    /\ call = NoCall

\* invocations that overlap; database statements succeed
NextConc ==
    \/ \E p \in Callers, d \in Dates, force \in BOOLEAN : Begin(p, d, force, FALSE)
    \/ \E p \in Callers, urls \in DiscoveryResults(MaxSeqUrls) :
          Prepare(p, urls, None, FALSE, FALSE, FALSE)
    \/ \E p \in Callers : Submit(p)
    \/ \E p \in Callers, u \in Urls : SubmitSingle(p, u)
    \/ \E p \in Callers : StartRender(p)
    \/ \E p \in Callers, res \in AllRenderResults : FinishRender(p, res, FALSE)
    \/ \E p \in Callers, res \in AllRenderResults, save_to_db \in BOOLEAN :
          FinishSingle(p, res, None, save_to_db)
    \/ \E p \in Callers : Finalize(p, FALSE, FALSE)

SpecConc == InitConc /\ [][NextConc]_vars

(***************************************************************************)
(* services/auth_service.py, api/routes/auth.py: the login operations      *)
(***************************************************************************)
LOGIN_STATE_TTL == 0   \* timedelta(minutes=10): shorter than one clock tick

Emails == {"e1", "e2"}
OptEmails == {None} \cup {Some(e) : e \in Emails}

\* expires_at of a token: any int the request carries
TokenExpiries == 0..2

\* login_state.json that json.load or the timestamp parse rejects
CorruptLoginState == [kind |-> "corrupt"]

\* the state dict _run_playwright_request_code writes
login_state(email, t) == [kind |-> "json", email |-> email, timestamp |-> t]

\* faulty variant: a stale state is reported as absent but its file is kept
_load_login_state_keeps_stale(file, t) ==
    IF file.kind = "absent" THEN [state |-> None, file |-> file]
    ELSE IF file.kind = "corrupt" THEN [state |-> None, file |-> file]
    ELSE IF t - file.timestamp > LOGIN_STATE_TTL
         THEN [state |-> None, file |-> file]
    ELSE [state |-> Some(file.email), file |-> file]

\* faulty variant: the age of the state is not looked at
_load_login_state_ignores_age(file, t) ==
    IF file.kind = "absent" THEN [state |-> None, file |-> file]
    ELSE IF file.kind = "corrupt" THEN [state |-> None, file |-> file]
    ELSE [state |-> Some(file.email), file |-> file]

\* AuthService._load_login_state on login_state.json at time t: the state it
\* returns (the pending email, None for no state) and the file it leaves
_load_login_state(file, t) ==
    IF file.kind = "absent" THEN [state |-> None, file |-> file]
    ELSE IF file.kind = "corrupt" THEN [state |-> None, file |-> file]
    ELSE IF t - file.timestamp > LOGIN_STATE_TTL
         THEN [state |-> None, file |-> NoLoginState]
    ELSE [state |-> Some(file.email), file |-> file]

\* session_data.json of a cookie session saved at time t
cookie_session_data(t) ==
    [kind |-> "json", auth_type |-> "cookie", expires_at |-> Some(t + SESSION_TTL)]

\* faulty variant: login_state.json is not removed
save_session_keeps_login_state(t) ==
    [storageState |-> TRUE,
     sessionFile |-> cookie_session_data(t),
     loginState |-> loginState]

\* save_session inside _run_playwright_verify_code: the three files after it
save_session(t) ==
    [storageState |-> TRUE,
     sessionFile |-> cookie_session_data(t),
     loginState |-> NoLoginState]

\* the files as an operation finds them
Files == [loginState |-> loginState, sessionFile |-> sessionFile,
          storageState |-> storageState]

\* faulty variant: requesting a code drops the saved session
request_login_code_drops_session(email, sent) ==
    /\ loginState' = IF sent THEN login_state(email, now) ELSE loginState
    /\ sessionFile' = IF sent THEN NoFile ELSE sessionFile
    /\ call' = [op |-> "request_code", seq |-> 1 - call.seq, at |-> now,
                success |-> sent]
    /\ UNCHANGED <<sessions, nextId, articles, run, storageState, now>>

\* POST /api/auth/request-code; sent: the site showed its code page
request_login_code(email, sent) ==
    /\ loginState' = IF sent THEN login_state(email, now) ELSE loginState
    /\ call' = [op |-> "request_code", seq |-> 1 - call.seq, at |-> now,
                success |-> sent]
    /\ UNCHANGED <<sessions, nextId, articles, run, sessionFile, storageState,
                   now>>

\* POST /api/auth/verify-code; accepted: the site logged the browser in
verify_login_code(email, accepted) ==
    LET loaded == _load_login_state(loginState, now)
        target_email == IF email # None THEN email ELSE loaded.state
        file == IF email # None THEN loginState ELSE loaded.file
        sv == save_session(now)
    IN /\ IF target_email = None
          THEN /\ loginState' = file
               /\ UNCHANGED <<sessionFile, storageState>>
               /\ call' = [op |-> "verify_code", seq |-> 1 - call.seq,
                           at |-> now, email |-> email, before |-> Files,
                           success |-> FALSE, message |-> "no_pending"]
          ELSE IF accepted
          THEN /\ loginState' = sv.loginState
               /\ sessionFile' = sv.sessionFile
               /\ storageState' = sv.storageState
               /\ call' = [op |-> "verify_code", seq |-> 1 - call.seq,
                           at |-> now, email |-> email, before |-> Files,
                           success |-> TRUE, message |-> "ok"]
          ELSE /\ loginState' = file
               /\ UNCHANGED <<sessionFile, storageState>>
               /\ call' = [op |-> "verify_code", seq |-> 1 - call.seq,
                           at |-> now, email |-> email, before |-> Files,
                           success |-> FALSE, message |-> "failed"]
       /\ UNCHANGED <<sessions, nextId, articles, run, now>>

\* GET /api/auth/status
get_login_status ==
    LET loaded == _load_login_state(loginState, now)
    IN /\ loginState' = loaded.file
       /\ call' = [op |-> "status", seq |-> 1 - call.seq, at |-> now,
                   before |-> Files,
                   logged_in |-> has_valid_session(sessionFile, now),
                   pending_login |-> loaded.state # None,
                   pending_email |-> loaded.state]
       /\ UNCHANGED <<sessions, nextId, articles, run, sessionFile,
                      storageState, now>>

\* POST /api/auth/set-token
save_token_session(expires_at) ==
    /\ sessionFile' = [kind |-> "json", auth_type |-> "token",
                       expires_at |-> Some(expires_at)]
    /\ storageState' = TRUE
    /\ call' = [op |-> "set_token", seq |-> 1 - call.seq, at |-> now,
                success |-> TRUE]
    /\ UNCHANGED <<sessions, nextId, articles, run, now, loginState>>

\* POST /api/auth/set-session
set_manual_session ==
    /\ sessionFile' = cookie_session_data(now)
    /\ storageState' = TRUE
    /\ call' = [op |-> "set_session", seq |-> 1 - call.seq, at |-> now,
                success |-> TRUE]
    /\ UNCHANGED <<sessions, nextId, articles, run, now, loginState>>

\* DELETE /api/auth/logout: clear_session and _clear_login_state
logout ==
    /\ sessionFile' = NoFile
    /\ loginState' = NoLoginState
    /\ call' = [op |-> "logout", seq |-> 1 - call.seq, at |-> now,
                before |-> Files, success |-> TRUE]
    /\ UNCHANGED <<sessions, nextId, articles, run, now, storageState>>

\* DELETE /api/scraper/session: ScrapeService.clear_session
clear_session_route ==
    /\ sessionFile' = NoFile
    /\ storageState' = FALSE
    /\ call' = [op |-> "clear_session", seq |-> 1 - call.seq, at |-> now,
                before |-> Files, success |-> TRUE]
    /\ UNCHANGED <<sessions, nextId, articles, run, now, loginState>>

\* faulty variant: an expired session is cleared on read, as load_session does
has_valid_session_call_discards_expired ==
    /\ call' = [op |-> "has_valid_session", seq |-> 1 - call.seq, at |-> now,
                valid |-> has_valid_session(sessionFile, now)]
    /\ sessionFile' = IF sessionFile.kind = "json"
                         /\ ~has_valid_session(sessionFile, now)
                      THEN NoFile ELSE sessionFile
    /\ UNCHANGED <<sessions, nextId, articles, run, now, storageState,
                   loginState>>

\* a call of AuthService.has_valid_session
has_valid_session_call ==
    /\ call' = [op |-> "has_valid_session", seq |-> 1 - call.seq, at |-> now,
                valid |-> has_valid_session(sessionFile, now)]
    /\ UNCHANGED <<sessions, nextId, articles, run, now, sessionFile,
                   storageState, loginState>>

\* GET /api/scraper/session: ScrapeService.check_session
check_session_status ==
    /\ call' = [op |-> "check_session", seq |-> 1 - call.seq, at |-> now,
                valid |-> check_session]
    /\ UNCHANGED <<sessions, nextId, articles, run, now, sessionFile,
                   storageState, loginState>>

\* time passes
Tick ==
    /\ now < MaxClock
    /\ now' = now + 1
    /\ UNCHANGED <<sessions, nextId, articles, run, sessionFile, storageState,
                   loginState, call>>

\* the session directory as earlier processes may have left it
InitAuth ==
    /\ sessions = <<>>
    /\ nextId = 1
    /\ articles = [x \in SgeIds |-> <<>>]
    /\ run = [p \in Procs |-> IdleRun]
    /\ sessionFile \in {NoFile, Corrupt}
    /\ storageState \in BOOLEAN
    /\ now = 0
    /\ loginState \in {NoLoginState, CorruptLoginState}
    /\ call = NoCall

NextAuth ==
    \/ \E u \in Urls, res \in AllRenderResults :
          scrape_single_article(u, res, None, FALSE)
    \/ \E email \in Emails, sent \in BOOLEAN : request_login_code(email, sent)
    \/ \E email \in OptEmails, accepted \in BOOLEAN :
          verify_login_code(email, accepted)
    \/ get_login_status
    \/ \E expires_at \in TokenExpiries : save_token_session(expires_at)
    \/ set_manual_session
    \/ logout
    \/ clear_session_route
    \/ has_valid_session_call
    \/ check_session_status
    \/ Tick

SpecAuth == InitAuth /\ [][NextAuth]_vars

(***************************************************************************)
(* scraper/social_extractor.py, scraper/sync_scraper.py,                   *)
(* scraper/article_scraper.py: what is extracted from one rendered page    *)
(***************************************************************************)
\* URLs occurring in the pages of the model
TT_VIDEO == "https://www.tiktok.com/@a/video/1"
TT_EMBED == "https://www.tiktok.com/embed/v2/1"
TT_SHARED == "https://www.tiktok.com/@a/video/1?ref=instagram.com/p/x"
IG_POST == "https://www.instagram.com/p/x"
TW_STATUS == "https://twitter.com/u/status/1"
YT_EMBED == "https://www.youtube.com/embed/v1"
YT_WATCH == "https://www.youtube.com/watch?v=v1"
SGE_EMBED == "https://www.socialgrowthengineers.com/embed/video/abc"

\* the regular expressions of the extractors, as the sets of URLs they match
AllUrls ==
    {"", TT_VIDEO, TT_EMBED, TT_SHARED, IG_POST, TW_STATUS, YT_EMBED,
     YT_WATCH, SGE_EMBED}
re_tiktok == {TT_VIDEO, TT_EMBED, TT_SHARED}
re_tiktok_video == {TT_VIDEO, TT_SHARED}
re_instagram == {IG_POST, TT_SHARED}
re_instagram_post == {IG_POST, TT_SHARED}
re_twitter_status == {TW_STATUS}
re_youtube_embed == {YT_EMBED}
re_youtube == {YT_EMBED, YT_WATCH}
re_youtube_watch == {YT_WATCH}
re_sge_embed == {SGE_EMBED}

\* re.finditer of the raw-text patterns: the matches inside one string
tiktok_scan ==
    [text \in AllUrls |->
        IF text \in {TT_VIDEO, TT_SHARED} THEN <<TT_VIDEO>>
        ELSE IF text = TT_EMBED THEN <<TT_EMBED>> ELSE <<>>]
instagram_scan ==
    [text \in AllUrls |-> IF text = IG_POST THEN <<IG_POST>> ELSE <<>>]
twitter_scan ==
    [text \in AllUrls |-> IF text = TW_STATUS THEN <<TW_STATUS>> ELSE <<>>]
youtube_scan ==
    [text \in AllUrls |-> IF text = YT_WATCH THEN <<YT_WATCH>> ELSE <<>>]

\* the video id of a YouTube URL, "" for None
_extract_youtube_video_id(url) ==
    IF url \in {YT_EMBED, YT_WATCH} THEN "v1" ELSE ""

\* One element of the HTML handed to the extractors, in document order.
\* url is the src of an iframe, the href of an anchor, the permalink or
\* inner link of a blockquote, a URL inside a script payload; "" is None.
\* kw is the platform keyword found in the alt text or src of an img.
Element(tag, cls, url, kw) ==
    [tag |-> tag, cls |-> cls, url |-> url, kw |-> kw]

Elements ==
    {Element("iframe", "", TT_EMBED, ""),
     Element("a", "", TT_VIDEO, ""),
     Element("a", "", TT_SHARED, ""),
     Element("a", "", IG_POST, ""),
     Element("blockquote", "instagram-media", IG_POST, ""),
     Element("blockquote", "instagram-media", "", ""),
     Element("a", "", TW_STATUS, ""),
     Element("iframe", "", YT_EMBED, ""),
     Element("a", "", YT_WATCH, ""),
     Element("script", "", TT_VIDEO, ""),
     Element("img", "", "", "tiktok"),
     Element("iframe", "", SGE_EMBED, "")}

RECURSIVE Flatten(_)
Flatten(ss) == IF ss = <<>> THEN <<>> ELSE Head(ss) \o Flatten(Tail(ss))

\* soup.find_all(tag, ...): the elements with this tag and class marker
\* whose URL attribute matches the pattern
find_all(html, tag, cls, pattern) ==
    SelectSeq(html,
        LAMBDA e : e.tag = tag /\ e.cls = cls /\ e.url \in pattern)

\* the matches of a raw-text pattern over the whole HTML string
_regex_urls(html, scan) ==
    Flatten([i \in 1..Len(html) |-> scan[html[i].url]])

\* a reference an extraction strategy is about to append: key is the value
\* tested against and added to seen_urls, url the value stored
Cand(platform, content_type, key, url, vid) ==
    [platform |-> platform, content_type |-> content_type, key |-> key,
     url |-> url, vid |-> vid]

\* the references of one strategy, stored under the URL they were found with
Cands(urls, platform, content_type) ==
    [i \in 1..Len(urls) |->
        Cand(platform, content_type, urls[i], urls[i], "")]

\* the URL attributes of a list of elements
UrlsOf(elems) == [i \in 1..Len(elems) |-> elems[i].url]

\* SocialContentData / the dict of _extract_social_contents
Content(c, position) ==
    [platform |-> c.platform, content_type |-> c.content_type,
     url |-> c.url, position_in_article |-> position]

\* the append loops of the strategies of one seen_urls scope: a candidate is
\* dropped when its key is in seen_urls or its video id in seen_video_ids;
\* a missing key or id is never added to the sets
RECURSIVE Dedup(_, _, _, _)
Dedup(cands, contents, seen_urls, seen_video_ids) ==
    IF cands = <<>> THEN contents
    ELSE LET c == Head(cands)
         IN IF c.key \in seen_urls \/ c.vid \in seen_video_ids
            THEN Dedup(Tail(cands), contents, seen_urls, seen_video_ids)
            ELSE Dedup(Tail(cands),
                       Append(contents, Content(c, Len(contents))),
                       seen_urls \cup (IF c.key = "" THEN {} ELSE {c.key}),
                       seen_video_ids
                           \cup (IF c.vid = "" THEN {} ELSE {c.vid}))

_extract_tiktok(html) ==
    LET iframes ==
            Cands(UrlsOf(find_all(html, "iframe", "", re_tiktok)),
                  "tiktok", "embed")
        blockquotes ==
            Cands(UrlsOf(find_all(html, "blockquote", "tiktok-embed", AllUrls)),
                  "tiktok", "embed")
        links ==
            Cands(UrlsOf(find_all(html, "a", "", re_tiktok_video)),
                  "tiktok", "video")
        regex_urls == Cands(_regex_urls(html, tiktok_scan), "tiktok", "video")
    IN Dedup(iframes \o blockquotes \o links \o regex_urls, <<>>, {}, {})

_extract_instagram(html) ==
    LET blockquotes ==
            Cands(UrlsOf(find_all(html, "blockquote", "instagram-media",
                                  AllUrls)),
                  "instagram", "embed")
        iframes ==
            Cands(UrlsOf(find_all(html, "iframe", "", re_instagram)),
                  "instagram", "embed")
        links ==
            Cands(UrlsOf(find_all(html, "a", "", re_instagram_post)),
                  "instagram", "post")
        regex_urls ==
            Cands(_regex_urls(html, instagram_scan), "instagram", "post")
    IN Dedup(blockquotes \o iframes \o links \o regex_urls, <<>>, {}, {})

_extract_twitter(html) ==
    LET blockquotes ==
            Cands(UrlsOf(find_all(html, "blockquote", "twitter-tweet",
                                  AllUrls)),
                  "twitter", "tweet")
        links ==
            Cands(UrlsOf(find_all(html, "a", "", re_twitter_status)),
                  "twitter", "tweet")
        regex_urls ==
            Cands(_regex_urls(html, twitter_scan), "twitter", "tweet")
    IN Dedup(blockquotes \o links \o regex_urls, <<>>, {}, {})

\* the references of one YouTube strategy: an iframe is stored under the
\* canonical watch URL of its video id, links and text matches as found
YoutubeCands(urls, canonical) ==
    [i \in 1..Len(urls) |->
        Cand("youtube", "video", urls[i],
             IF canonical /\ _extract_youtube_video_id(urls[i]) # ""
             THEN YT_WATCH ELSE urls[i],
             _extract_youtube_video_id(urls[i]))]

_extract_youtube(html) ==
    LET iframes ==
            YoutubeCands(UrlsOf(find_all(html, "iframe", "",
                                         re_youtube_embed)), TRUE)
        links ==
            YoutubeCands(UrlsOf(find_all(html, "a", "", re_youtube_watch)),
                         FALSE)
        regex_urls == YoutubeCands(_regex_urls(html, youtube_scan), FALSE)
    IN Dedup(iframes \o links \o regex_urls, <<>>, {}, {})

\* images whose alt text or src names a platform; no url, never deduplicated
_extract_screenshots(html) ==
    LET images == SelectSeq(html, LAMBDA e : e.tag = "img" /\ e.kw # "")
    IN [i \in 1..Len(images) |->
           Content(Cand(images[i].kw, "screenshot", "", "", ""), 0)]

\* content.position_in_article = position; position += 1
Place(block, position) ==
    [i \in 1..Len(block) |->
        [block[i] EXCEPT !.position_in_article = position + i - 1]]

\* faulty variant: the counter restarts with every platform
extract_all_restarts_position(html) ==
    Place(_extract_tiktok(html), 0) \o Place(_extract_instagram(html), 0)
    \o Place(_extract_twitter(html), 0) \o Place(_extract_youtube(html), 0)
    \o Place(_extract_screenshots(html), 0)

extract_all(html) ==
    LET tiktok == Place(_extract_tiktok(html), 0)
        instagram == tiktok \o Place(_extract_instagram(html), Len(tiktok))
        twitter == instagram \o Place(_extract_twitter(html), Len(instagram))
        youtube == twitter \o Place(_extract_youtube(html), Len(twitter))
    IN youtube \o Place(_extract_screenshots(html), Len(youtube))

\* what _fetch_sge_embed_details returns for the embed id of SGE_EMBED
EmbedDetails ==
    {None,
     Some([video_url |-> TT_VIDEO, platform |-> "tiktok"]),
     Some([video_url |-> YT_WATCH, platform |-> "youtube"])}

\* the references of site-hosted video embeds: stored under the video URL
\* and platform of the embed details, under the iframe src without them
HostedCands(urls, details) ==
    [i \in 1..Len(urls) |->
        IF details = None
        THEN Cand("tiktok", "video", urls[i], urls[i], "")
        ELSE Cand(Val(details).platform, "video", urls[i],
                  Val(details).video_url, "")]

\* one seen_urls set and one position counter for all blocks; every block
\* appends only URLs that are present and not yet seen
_extract_social_contents(html, details) ==
    LET Present == AllUrls \ {""}
        sge_video_iframes ==
            HostedCands(UrlsOf(find_all(html, "iframe", "", re_sge_embed)),
                        details)
        tiktok_iframes ==
            Cands(UrlsOf(find_all(html, "iframe", "", re_tiktok)),
                  "tiktok", "video")
        tiktok_links ==
            Cands(UrlsOf(find_all(html, "a", "", re_tiktok)),
                  "tiktok", "video")
        ig_blockquotes ==
            Cands(UrlsOf(find_all(html, "blockquote", "instagram-media",
                                  re_instagram)),
                  "instagram", "post")
        ig_links ==
            Cands(UrlsOf(find_all(html, "a", "", re_instagram_post)),
                  "instagram", "post")
        twitter_blockquotes ==
            Cands(UrlsOf(find_all(html, "blockquote", "twitter-tweet",
                                  Present)),
                  "twitter", "tweet")
        twitter_links ==
            Cands(UrlsOf(find_all(html, "a", "", re_twitter_status)),
                  "twitter", "tweet")
        yt_iframes ==
            Cands(UrlsOf(find_all(html, "iframe", "", re_youtube)),
                  "youtube", "video")
        yt_links ==
            Cands(UrlsOf(find_all(html, "a", "", re_youtube_watch)),
                  "youtube", "video")
    IN Dedup(sge_video_iframes \o tiktok_iframes \o tiktok_links
             \o ig_blockquotes \o ig_links \o twitter_blockquotes
             \o twitter_links \o yt_iframes \o yt_links, <<>>, {}, {})

\* a value of the "title" key of the embedded state
NoKey == [kind |-> "absent"]
JsonNull == [kind |-> "null"]
Str(s) == [kind |-> "str", s |-> s]
PostTitles == {NoKey, JsonNull, Str(""), Str("T")}

\* the text of the first <h1> and of <title>, None when the tag is missing
TagTexts == {None, Some(" "), Some("H")}

\* get_text(strip=True)
Strip(s) == IF s = " " THEN "" ELSE s

\* ArticleScraper._extract_title
_extract_title(page) ==
    IF page.post_title # NoKey THEN page.post_title
    ELSE IF page.h1 # None THEN Str(Strip(Val(page.h1)))
    ELSE IF page.title_tag # None THEN Str(Strip(Val(page.title_tag)))
    ELSE Str("Untitled")

\* _parse_article_sync: title = post.get("title"); if not title: ...
_parse_article_sync_title(page) ==
    IF page.post_title \notin {NoKey, JsonNull, Str("")} THEN page.post_title
    ELSE IF page.h1 # None THEN Str(Strip(Val(page.h1)))
    ELSE Str("Untitled")

\* the "tags" value of the embedded state: missing, not a list, or a list
\* of tag objects and plain strings
TagNames == {"x", "y"}
TagDict(n) == [kind |-> "dict", name |-> n]
TagStr(t) == [kind |-> "str", s |-> t]
RawTagItems == {TagDict(n) : n \in TagNames} \cup {TagStr("x")}
TagList(items) == [kind |-> "list", items |-> items]
RawTags == {NoKey, Str("x,y")} \cup {TagList(l) : l \in SeqsUpTo(RawTagItems, MaxTags)}

\* the texts of the a[href*='/tag/'] links of the page, in document order
TagLinks == SeqsUpTo(TagNames \cup {" "}, MaxTags)

\* tag.get("name") or tag.get("title", "") for a dict, str(tag) otherwise
TagName(tag) == IF tag.kind = "dict" THEN tag.name ELSE tag.s

\* the loop over raw_tags: one append per element, no membership test
EmbeddedTags(raw_tags) ==
    IF raw_tags.kind = "list"
    THEN [i \in 1..Len(raw_tags.items) |-> TagName(raw_tags.items[i])]
    ELSE <<>>

\* the loop over the tag links: a stripped text is appended when it is not
\* empty and not in the list yet
RECURSIVE AppendNew(_, _)
AppendNew(tags, texts) ==
    IF texts = <<>> THEN tags
    ELSE AppendNew(IF Strip(Head(texts)) # "" /\ Strip(Head(texts)) \notin Range(tags)
                   THEN Append(tags, Strip(Head(texts))) ELSE tags,
                   Tail(texts))

\* ArticleScraper._extract_tags
_extract_tags(page) ==
    LET tags == AppendNew(EmbeddedTags(page.post_tags), page.tag_links)
    IN  IF tags # <<>> THEN Some(tags) ELSE None

\* _parse_article_sync: the tags come from the embedded state only
_parse_article_sync_tags(page) ==
    LET tags == EmbeddedTags(page.post_tags)
    IN  IF tags # <<>> THEN Some(tags) ELSE None

\* a rendered page: the HTML handed to the social extractors (page HTML
\* followed by the content HTML of the embedded state), what the title
\* chain reads and what the tag extraction reads
Pages ==
    [html : SeqsUpTo(Elements, MaxElems), post_title : PostTitles,
     h1 : TagTexts, title_tag : TagTexts,
     post_tags : {NoKey}, tag_links : {<<>>}]
    \cup
    [html : {<<>>}, post_title : {NoKey}, h1 : {None}, title_tag : {None},
     post_tags : RawTags, tag_links : TagLinks]

\* ArticleScraper.scrape_article after the page is rendered
scrape_article ==
    /\ call.op = "page"
    /\ call' = [op |-> "scrape_article", seq |-> 1 - call.seq, at |-> now,
                page |-> call.page,
                title |-> _extract_title(call.page),
                tags |-> _extract_tags(call.page),
                social_contents |-> extract_all(call.page.html)]
    /\ UNCHANGED <<sessions, nextId, articles, run, sessionFile, storageState,
                   now, loginState>>

\* scrape_article_sync after the page is rendered
scrape_article_sync(details) ==
    /\ call.op = "page"
    /\ call' = [op |-> "scrape_article_sync", seq |-> 1 - call.seq,
                at |-> now, page |-> call.page,
                title |-> _parse_article_sync_title(call.page),
                tags |-> _parse_article_sync_tags(call.page),
                social_contents |->
                    _extract_social_contents(call.page.html, details)]
    /\ UNCHANGED <<sessions, nextId, articles, run, sessionFile, storageState,
                   now, loginState>>

InitPage ==
    /\ sessions = <<>>
    /\ nextId = 1
    /\ articles = [x \in SgeIds |-> <<>>]
    /\ run = [p \in Procs |-> IdleRun]
    /\ sessionFile = NoFile
    /\ storageState = FALSE
    /\ now = 0
    /\ loginState = NoLoginState
    /\ call \in {[op |-> "page", seq |-> 0, at |-> 0, page |-> page] :
                    page \in Pages}

NextPage ==
    \/ scrape_article
    \/ \E details \in EmbedDetails : scrape_article_sync(details)

SpecPage == InitPage /\ [][NextPage]_vars

(***************************************************************************)
(* scraper/sitemap_parser.py: discovery                                    *)
(***************************************************************************)
\* A URL is the sequence of the pieces of its string; substring tests,
\* replace and rstrip of the source work on the pieces.
BASE_URL == "https://www.socialgrowthengineers.com"

\* the <loc> values a sitemap response of the model can list
SitemapLocs ==
    {<<BASE_URL>>,
     <<BASE_URL, "/">>,
     <<BASE_URL, "/a-real-post">>,
     <<BASE_URL, "/a-real-post", "/">>,
     <<BASE_URL, "/apps">>,
     <<BASE_URL, "/apps", "/">>,
     <<BASE_URL, "/apps", "/extra">>,
     <<BASE_URL, "/category/", "news">>,
     <<BASE_URL, "/Tag/", "x">>,
     <<BASE_URL, "/sitemap", "-1", ".xml">>,
     <<BASE_URL, ".example.net", "/post">>,
     <<"https://other.example", "/post">>}

\* <url> entries: loc and the date of lastmod, None without a parsable one
SitemapEntries == [loc : SitemapLocs, lastmod : {None} \cup {Some(d) : d \in Dates}]

\* a sitemap response: the fetch raised, the body is not well-formed XML,
\* or the entries in document order
FetchFailed == [kind |-> "failed"]
ParseFailed == [kind |-> "unparsable"]
SitemapXml(entries) == [kind |-> "xml", entries |-> entries]
\* settings.sitemap_urls, by position
Sitemaps == 1..NumSitemaps

\* the entries, from position k on, that sitemap i lists
RECURSIVE Owned(_, _, _, _)
Owned(entries, owner, i, k) ==
    IF k > Len(entries) THEN <<>>
    ELSE (IF owner[k] = i THEN <<entries[k]>> ELSE <<>>)
         \o Owned(entries, owner, i, k + 1)

\* what the configured sitemaps answer in one pass over them
ResponsesOf(entries, owner, kind) ==
    [i \in Sitemaps |->
        IF kind[i] = "failed" THEN FetchFailed
        ELSE IF kind[i] = "unparsable" THEN ParseFailed
        ELSE SitemapXml(Owned(entries, owner, i, 1))]

\* at most MaxLocs entries over all sitemaps
AllResponses ==
    {ResponsesOf(entries, owner, kind) :
        entries \in SeqsUpTo(SitemapEntries, MaxLocs),
        owner \in [1..MaxLocs -> Sitemaps],
        kind \in [Sitemaps -> {"failed", "unparsable", "xml"}]}

\* the same sitemaps fetched again, the fetches of the sitemaps in failing
\* raising this time
FetchedAgain(responses, failing) ==
    [i \in Sitemaps |-> IF i \in failing THEN FetchFailed ELSE responses[i]]

exclude_patterns ==
    {"/category/", "/tag/", "/author/", "/page/", "/sitemap", ".xml"}

exclude_exact ==
    {<<"/apps">>, <<"/resources">>, <<"/reports">>, <<"/join">>, <<"/about">>,
     <<"/advertise">>, <<"/formats">>, <<"/privacy-policy">>,
     <<"/terms-of-service">>, <<"/mysge">>}

\* url.lower()
Lower(url) == [i \in 1..Len(url) |-> IF url[i] = "/Tag/" THEN "/tag/" ELSE url[i]]

\* pattern in url
Contains(url, pattern) == \E i \in 1..Len(url) : url[i] = pattern

\* url.rstrip("/")
RECURSIVE RStripSlash(_)
RStripSlash(url) ==
    IF url # <<>> /\ url[Len(url)] = "/"
    THEN RStripSlash(SubSeq(url, 1, Len(url) - 1))
    ELSE url

\* url.replace(settings.base_url, "")
RemoveBase(url) == SelectSeq(url, LAMBDA piece : piece # BASE_URL)

_is_article_url(url) ==
    IF \E pattern \in exclude_patterns : Contains(Lower(url), pattern)
    THEN FALSE
    ELSE IF ~Contains(url, BASE_URL) THEN FALSE
    ELSE IF RStripSlash(url) = <<BASE_URL>> THEN FALSE
    ELSE IF RStripSlash(RemoveBase(url)) \in exclude_exact THEN FALSE
    ELSE TRUE

filter_article_urls(urls) ==
    SelectSeq(urls,
        LAMBDA url :
            /\ ~\E pattern \in exclude_patterns : Contains(Lower(url), pattern)
            /\ Contains(url, BASE_URL)
            /\ RStripSlash(url) # <<BASE_URL>>
            /\ RStripSlash(RemoveBase(url)) \notin exclude_exact)

\* parse_urls: the <loc> texts; a ParseError is caught and gives no URL
parse_urls(xml) ==
    IF xml.kind = "unparsable" THEN <<>>
    ELSE [i \in 1..Len(xml.entries) |-> xml.entries[i].loc]

\* parse_urls_with_dates: the (loc, lastmod) pairs
parse_urls_with_dates(xml) ==
    IF xml.kind = "unparsable" THEN <<>> ELSE xml.entries

\* the body of the try of one loop iteration: the article URLs one fetched
\* sitemap contributes; target_date None is get_all_article_urls
SitemapUrls(xml, target_date) ==
    IF target_date = None
    THEN Range(filter_article_urls(parse_urls(xml)))
    ELSE {e.loc : e \in {x \in Range(parse_urls_with_dates(xml)) :
                            /\ _is_article_url(x.loc)
                            /\ x.lastmod # None
                            /\ Val(x.lastmod) = Val(target_date)}}

\* faulty variant: the exception of a failed fetch leaves the loop
SitemapLoop_propagates(responses, target_date) ==
    IF \E i \in Sitemaps : responses[i] = FetchFailed
    THEN [raised |-> TRUE, urls |-> {}]
    ELSE [raised |-> FALSE,
          urls |-> UNION {SitemapUrls(responses[i], target_date) : i \in Sitemaps}]

\* for sitemap_url in settings.sitemap_urls: try ... except: both except
\* clauses end the iteration of a failed fetch, nothing leaves the loop
SitemapLoop(responses, target_date) ==
    [raised |-> FALSE,
     urls |-> UNION {SitemapUrls(responses[i], target_date) :
                        i \in {j \in Sitemaps : responses[j] # FetchFailed}}]

\* SitemapParser.get_all_article_urls; the result is list(set(...))
get_all_article_urls ==
    /\ call.op = "sitemap"
    /\ LET res == SitemapLoop(call.responses, None) IN
       call' = [op |-> "get_all_article_urls", seq |-> 1 - call.seq,
                at |-> now, responses |-> call.responses,
                raised |-> res.raised, urls |-> res.urls]
    /\ UNCHANGED <<sessions, nextId, articles, run, sessionFile, storageState,
                   now, loginState>>

\* SitemapParser.get_article_urls_for_date
get_article_urls_for_date(target_date) ==
    /\ call.op = "sitemap"
    /\ LET res == SitemapLoop(call.responses, Some(target_date)) IN
       call' = [op |-> "get_article_urls_for_date", seq |-> 1 - call.seq,
                at |-> now, responses |-> call.responses,
                target_date |-> target_date,
                raised |-> res.raised, urls |-> res.urls]
    /\ UNCHANGED <<sessions, nextId, articles, run, sessionFile, storageState,
                   now, loginState>>

\* faulty variant: the full discovery runs whatever the date filter found
Discover_always_full(target_date, failing) ==
    /\ call.op = "sitemap"
    /\ LET dated == SitemapLoop(call.responses, Some(target_date))
           again == FetchedAgain(call.responses, failing)
           full == SitemapLoop(again, None)
           article_urls == full.urls
           failed == dated.raised \/ full.raised
       IN call' = [op |-> "discover", seq |-> 1 - call.seq, at |-> now,
                   responses |-> call.responses,
                   target_date |-> target_date,
                   dated |-> dated.urls,
                   again |-> Some(again),
                   article_urls |-> article_urls,
                   status |-> IF failed THEN "failed" ELSE "running",
                   articles_found |-> IF failed THEN 0
                                      ELSE Cardinality(article_urls)]
    /\ UNCHANGED <<sessions, nextId, articles, run, sessionFile, storageState,
                   now, loginState>>

\* run_scrape, lines 155-169: date-filtered discovery, the fallback to the
\* full discovery, and articles_found on the session row; an exception
\* would take the run to fail_session
Discover(target_date, failing) ==
    /\ call.op = "sitemap"
    /\ LET dated == SitemapLoop(call.responses, Some(target_date))
           fallback == ~dated.raised /\ dated.urls = {}
           again == FetchedAgain(call.responses, failing)
           full == SitemapLoop(again, None)
           article_urls == IF fallback THEN full.urls ELSE dated.urls
           failed == dated.raised \/ (fallback /\ full.raised)
       IN /\ fallback \/ failing = {}
          /\ call' = [op |-> "discover", seq |-> 1 - call.seq, at |-> now,
                      responses |-> call.responses,
                      target_date |-> target_date,
                      dated |-> dated.urls,
                      again |-> IF fallback THEN Some(again) ELSE None,
                      article_urls |-> article_urls,
                      status |-> IF failed THEN "failed" ELSE "running",
                      articles_found |-> IF failed THEN 0
                                         ELSE Cardinality(article_urls)]
    /\ UNCHANGED <<sessions, nextId, articles, run, sessionFile, storageState,
                   now, loginState>>

InitSitemap ==
    /\ sessions = <<>>
    /\ nextId = 1
    /\ articles = [x \in SgeIds |-> <<>>]
    /\ run = [p \in Procs |-> IdleRun]
    /\ sessionFile = NoFile
    /\ storageState = FALSE
    /\ now = 0
    /\ loginState = NoLoginState
    /\ call \in {[op |-> "sitemap", seq |-> 0, at |-> 0, responses |-> rs] :
                    rs \in AllResponses}

NextSitemap ==
    \/ get_all_article_urls
    \/ \E target_date \in Dates : get_article_urls_for_date(target_date)
    \/ \E target_date \in Dates, failing \in SUBSET Sitemaps :
          Discover(target_date, failing)

SpecSitemap == InitSitemap /\ [][NextSitemap]_vars

(***************************************************************************)
(* Properties                                                              *)
(***************************************************************************)
\* committed rows of scrape_sessions for date d that are completed with at
\* least one successful article
CompletedWithSuccess(d) ==
    {i \in DOMAIN sessions : /\ sessions[i].committed
                             /\ sessions[i].target_date = d
                             /\ sessions[i].status = "completed"
                             /\ sessions[i].articles_success > 0}

C1_SkipStep(p) ==
    LET d == run'[p].target_date
        Q == CompletedWithSuccess(d)
        out == run'[p].outcome
    IN (/\ run[p].pc = "idle" /\ run'[p].pc # "idle"
        /\ ~run'[p].force
        /\ Q # {}
        /\ out.status # "raised")
       => /\ run'[p].pc = "done"
          /\ out.status = "skipped"
          /\ out.session_id \in Q
          /\ \A j \in Q :
                sessions[j].started_at <= sessions[out.session_id].started_at
          /\ out.articles_success = sessions[out.session_id].articles_success
          /\ run'[p].rendered = <<>>
          /\ sessions' = sessions
          /\ nextId' = nextId
          /\ articles' = articles

C2_SkipIffQualifying ==
    \A p \in Procs :
        LET r == run[p]
            Q == CompletedWithSuccess(r.target_date) \ {r.sid}
        IN r.pc # "idle"
           => /\ r.outcome.status = "skipped"
                 => /\ ~r.force
                    /\ r.sid = 0
                    /\ r.outcome.session_id \in Q
                    /\ \A j \in Q : sessions[j].started_at
                                    <= sessions[r.outcome.session_id].started_at
              /\ (~r.force /\ r.sid # 0) => Q = {}
              /\ r.force => r.outcome.status # "skipped"

\* a skip returned a session although a later-started row for the same date,
\* one that is not completed with successes, is in the store
C2_Witness ==
    \E p \in Procs :
        /\ run[p].pc = "done"
        /\ run[p].outcome.status = "skipped"
        /\ \E j \in DOMAIN sessions :
              /\ sessions[j].target_date = run[p].target_date
              /\ sessions[j].committed
              /\ j \notin CompletedWithSuccess(run[p].target_date)
              /\ sessions[j].started_at
                 > sessions[run[p].outcome.session_id].started_at

\* C3: every completed row has success + failed + skipped <= found and
\* success = new + updated
C3_CountersWithinFound ==
    \A i \in DOMAIN sessions :
        sessions[i].status = "completed"
        => /\ sessions[i].articles_success + sessions[i].articles_failed
              + sessions[i].articles_skipped <= sessions[i].articles_found
           /\ sessions[i].articles_success
              = sessions[i].articles_new + sessions[i].articles_updated

\* a completed row whose counters use up everything that was found, with a
\* success beside a failure or a skip
C3_Witness ==
    \E i \in DOMAIN sessions :
        /\ sessions[i].status = "completed"
        /\ sessions[i].articles_success > 0
        /\ sessions[i].articles_failed + sessions[i].articles_skipped > 0
        /\ sessions[i].articles_success + sessions[i].articles_failed
           + sessions[i].articles_skipped = sessions[i].articles_found

\* C4 as stated: every completed row has scraped = success + failed
C4_Original ==
    \A i \in DOMAIN sessions :
        sessions[i].status = "completed"
        => sessions[i].articles_scraped
           = sessions[i].articles_success + sessions[i].articles_failed

\* C4 (amended): every completed row has scraped = success + failed + skipped;
\* an article skipped by date validation is counted in scraped
C4_ScrapedCountsSkipped ==
    \A i \in DOMAIN sessions :
        sessions[i].status = "completed"
        => sessions[i].articles_scraped
           = sessions[i].articles_success + sessions[i].articles_failed
             + sessions[i].articles_skipped

\* a completed row with a skipped article
C4_Witness ==
    \E i \in DOMAIN sessions :
        /\ sessions[i].status = "completed"
        /\ sessions[i].articles_skipped > 0
        /\ sessions[i].articles_scraped > sessions[i].articles_skipped

\* C5 as stated: after a completed run every sge_id it saved has one article
\* row, whose social_contents are exactly those of the latest extraction saved
\* under that sge_id
C5_Original ==
    \A p \in Procs :
        (run[p].pc = "done" /\ run[p].outcome.status = "completed")
        => \A x \in SgeIds :
              /\ Len(articles[x]) <= 1
              /\ run[p].saved[x] # None
                 => /\ Len(articles[x]) = 1
                    /\ articles[x][1].social = Val(run[p].saved[x])

C6_DateOk(article_dict, target_date) ==
    IF article_dict.published_at = None THEN TRUE
    ELSE Val(article_dict.published_at).day = target_date

C6_Step(p) ==
    LET r == run[p]
        r2 == run'[p]
        a == r2.article_dict
    IN /\ (r.pc = "loop" /\ r2.pc = "loop" /\ r2.i = r.i + 1 /\ a.kind = "dict")
          => IF ~C6_DateOk(a, r.target_date)
             THEN /\ r2.skipped = r.skipped + 1
                  /\ r2.success = r.success /\ r2.failed = r.failed
                  /\ r2.db = r.db /\ r2.saved = r.saved
             ELSE IF r2.txok
             THEN /\ r2.success = r.success + 1
                  /\ r2.skipped = r.skipped /\ r2.failed = r.failed
                  /\ r2.saved[a.sge_id] = Some(a.social_contents)
                  /\ r2.db # r.db
             ELSE /\ r2.failed = r.failed + 1
                  /\ r2.success = r.success /\ r2.skipped = r.skipped
                  /\ r2.db = r.db /\ r2.saved = r.saved
       /\ (r.pc = "loop" /\ r2.pc = "done" /\ r2.outcome.status = "completed")
          => \A x \in SgeIds :
                /\ r.saved[x] # None => articles'[x] # <<>>
                /\ articles'[x] # articles[x] => r.saved[x] # None

\* C6: in run_scrape an extracted article whose upsert does not raise is
\* written and counted as success exactly if its published_at is absent or
\* falls on target_date; otherwise it is counted as skipped and nothing is
\* written for it; a completed run commits rows for the saved sge_ids only
C6_SavedIffForDate ==
    [][\A p \in Procs : C6_Step(p)]_vars

\* the loop has skipped one article and saved one that has no published_at
C6_Witness ==
    \E p \in Procs :
        /\ run[p].pc = "loop"
        /\ run[p].skipped = 1
        /\ run[p].success = 1
        /\ run[p].article_dict.kind = "dict"
        /\ run[p].article_dict.published_at = None

\* C7 as stated: the status of every row whose run has ended has changed, to
\* completed or to failed
C7_Original ==
    \A i \in DOMAIN sessions :
        sessions[i].committed => sessions[i].status \in {"completed", "failed"}

C7_Step ==
    /\ \A i \in DOMAIN sessions' \ DOMAIN sessions :
          /\ i = nextId /\ nextId' = nextId + 1
          /\ sessions'[i].status = "running"
          /\ ~sessions'[i].finished
          /\ ~sessions'[i].committed
          /\ \E p \in Procs :
                /\ run[p].pc = "idle" /\ run'[p].pc = "created"
                /\ run'[p].sid = i
                /\ sessions'[i].target_date = run'[p].target_date
                /\ run'[p].force
                   \/ CompletedWithSuccess(run'[p].target_date) = {}
    /\ \A i \in DOMAIN sessions :
          /\ i < nextId
          /\ sessions[i].status \in {"completed", "failed"}
             => sessions[i].committed
          /\ sessions[i].committed
             => i \in DOMAIN sessions' /\ sessions'[i] = sessions[i]
          /\ (i \in DOMAIN sessions' /\ sessions'[i].status # sessions[i].status)
             => /\ sessions[i].status = "running"
                /\ sessions'[i].status \in {"completed", "failed"}
                /\ sessions'[i].committed

\* C7 (amended): every row is created with status running, under a fresh id,
\* by a run that passed the gate; its status changes at most once, to
\* completed or to failed, when its run ends, and from the end of its run on
\* the row is never modified, so a row whose run returned auth_required stays
\* running; a later attempt creates a new row
C7_Lifecycle ==
    [][C7_Step]_vars

\* two rows for one date: the first left running by a run that has ended, the
\* second completed
C7_Witness ==
    \E i, j \in DOMAIN sessions :
        /\ i < j
        /\ sessions[i].target_date = sessions[j].target_date
        /\ sessions[i].committed /\ sessions[i].status = "running"
        /\ sessions[j].committed /\ sessions[j].status = "completed"

C8_Authenticated ==
    /\ storageState
    /\ sessionFile.kind = "json"
    /\ IF sessionFile.expires_at = None THEN TRUE
       ELSE now <= Val(sessionFile.expires_at)

C8_Step(p) ==
    LET r == run[p]
        r2 == run'[p]
    IN (r.pc = "created" /\ r2.pc # "created")
       => /\ (~C8_Authenticated /\ r2.outcome.status # "raised")
             => /\ r2.pc = "done"
                /\ r2.outcome.status = "auth_required"
                /\ r2.outcome.session_id = r.sid
                /\ r2.rendered = <<>>
                /\ articles' = articles
                /\ sessions'[r.sid].status = "running"
                /\ ~sessions'[r.sid].finished
                /\ sessions'[r.sid].committed
          /\ C8_Authenticated => r2.outcome.status # "auth_required"

C9_Original ==
    \A p \in Procs :
        (run[p].pc = "done" /\ run[p].rendered # <<>> /\ ~run[p].txok)
        => /\ run[p].rendered = run[p].urls_to_scrape
           /\ run[p].outcome.status = "completed"

\* C10 as stated: every invocation ends by returning skipped, completed,
\* failed or auth_required
C10_Original ==
    \A p \in Procs :
        run[p].pc = "done"
        => run[p].outcome.status
           \in {"skipped", "completed", "failed", "auth_required"}

\* a login_state.json whose timestamp is more than the freshness window old
StaleEntry(file, t) ==
    file.kind = "json" /\ t - file.timestamp > LOGIN_STATE_TTL

\* a login_state.json that is inside its freshness window
FreshEntry(file, t) ==
    file.kind = "json" /\ t - file.timestamp <= LOGIN_STATE_TTL

\* a session_data.json whose expiry instant has not passed
LiveSession(file, t) ==
    /\ file.kind = "json"
    /\ IF file.expires_at = None THEN TRUE ELSE t <= Val(file.expires_at)

\* the step is a call of operation op
Called(op) == call'.seq # call.seq /\ call'.op = op

C11_Step ==
    /\ (Called("status") /\ StaleEntry(loginState, now))
       => /\ ~call'.pending_login
          /\ call'.pending_email = None
          /\ loginState' = NoLoginState
    /\ (Called("verify_code") /\ StaleEntry(loginState, now))
       => (call'.email = None
           => /\ ~call'.success
              /\ call'.message = "no_pending"
              /\ loginState' = NoLoginState
              /\ sessionFile' = sessionFile
              /\ storageState' = storageState)
    /\ (StaleEntry(loginState, now) /\ loginState' = loginState)
       => StaleEntry(loginState', now')

\* C11: a pending login entry older than the freshness window stays stale as
\* time passes, and every read of it treats it as absent: the status check
\* reports no pending login and no pending email, verify-code without an email
\* answers that there is no pending login, and either read removes the entry
C11_StaleIsAbsent ==
    [][C11_Step]_vars

\* a status check has found a stale entry, reported nothing pending and left
\* no entry behind
C11_Witness ==
    /\ call.op = "status"
    /\ StaleEntry(call.before.loginState, call.at)
    /\ ~call.pending_login
    /\ loginState = NoLoginState

\* C12 as stated: the slot is never pending and established at the same time
C12_Original ==
    ~(FreshEntry(loginState, now) /\ LiveSession(sessionFile, now))

C12_Step ==
    /\ Called("request_code")
       => sessionFile' = sessionFile /\ storageState' = storageState
    /\ (Called("set_token") \/ Called("set_session") \/ Called("clear_session"))
       => loginState' = loginState
    /\ (Called("verify_code") /\ call'.success)
       => loginState' = NoLoginState /\ LiveSession(sessionFile', now')
    /\ Called("logout")
       => loginState' = NoLoginState /\ sessionFile' = NoFile

\* C12 (amended): the pending entry and the established session are two
\* independent records: request-code changes only the pending entry,
\* set-session, set-token and clear-session change only the session, a
\* successful verify-code establishes the session and removes the pending
\* entry, logout removes both; pending and established can hold together
C12_IndependentRecords ==
    [][C12_Step]_vars

\* the slot is pending and established at once
C12_Witness ==
    /\ FreshEntry(loginState, now)
    /\ LiveSession(sessionFile, now)
    /\ call.op = "request_code"

\* C13 as stated: verify-code establishes a session only if an unexpired
\* pending entry exists
C13_Original ==
    (call.op = "verify_code" /\ call.success)
    => FreshEntry(call.before.loginState, call.at)

C13_Step ==
    LET P == FreshEntry(loginState, now)
        P2 == FreshEntry(loginState', now')
        E == LiveSession(sessionFile, now)
        E2 == LiveSession(sessionFile', now')
        verified == Called("verify_code") /\ call'.success
    IN /\ (~E /\ E2)
          => Called("set_token") \/ Called("set_session") \/ verified
       /\ (E /\ ~E2)
          => \/ now' # now
             \/ Called("logout") \/ Called("clear_session")
             \/ Called("set_token")
       /\ (~P /\ P2) => Called("request_code") /\ call'.success
       /\ (P /\ ~P2) => now' # now \/ Called("logout") \/ verified
       /\ verified => /\ call'.email # None \/ P
                      /\ E2 /\ ~P2

\* C13 (amended): the session becomes established only by set-session,
\* set-token or a successful verify-code, and stops being established only by
\* expiry, logout, clear-session or a set-token with a passed expiry; a
\* pending entry appears only by a successful request-code and disappears
\* only by expiry, logout or a successful verify-code; verify-code needs an
\* unexpired pending entry only when it is called without an email
C13_Transitions ==
    [][C13_Step]_vars

\* verify-code with an email has established a session with no pending entry
C13_Witness ==
    /\ call.op = "verify_code"
    /\ call.success
    /\ call.email # None
    /\ call.before.loginState.kind = "absent"
    /\ LiveSession(sessionFile, now)

C14_Step ==
    Called("verify_code")
    => IF call'.success
       THEN /\ storageState'
            /\ LiveSession(sessionFile', now')
            /\ loginState' = NoLoginState
       ELSE /\ sessionFile' = sessionFile
            /\ storageState' = storageState
            /\ \/ loginState' = loginState
               \/ StaleEntry(loginState, now) /\ loginState' = NoLoginState

\* C14: a successful verify-code leaves the storage snapshot and an unexpired
\* session record in place and no pending entry; a failed verify-code leaves
\* the session record and the snapshot as they were, and the pending entry as
\* it was, a stale entry counting as absent
C14_VerifyOutcome ==
    [][C14_Step]_vars

\* a successful verify-code has replaced a fresh pending entry by a session
C14_Witness ==
    /\ call.op = "verify_code"
    /\ call.success
    /\ FreshEntry(call.before.loginState, call.at)
    /\ call.before.sessionFile.kind = "absent"
    /\ loginState = NoLoginState
    /\ storageState

\* C15 as stated: has_valid_session and check_session never report a session
\* as valid after its stored expiry instant has passed
C15_Original ==
    (call.op \in {"has_valid_session", "check_session"}
     /\ call.at = now /\ call.valid)
    => ~(/\ sessionFile.kind = "json"
         /\ sessionFile.expires_at # None
         /\ now > Val(sessionFile.expires_at))

C16_Step ==
    Called("has_valid_session")
    => /\ sessionFile' = sessionFile
       /\ storageState' = storageState
       /\ loginState' = loginState
       /\ (call.op = "has_valid_session" /\ call.at = now)
          => call'.valid = call.valid

\* C16: has_valid_session leaves session_data.json, storage_state.json and
\* login_state.json as they are, and a second call right after a first, at
\* the same clock value, returns the same answer
C16_PureRead ==
    [][C16_Step]_vars

\* has_valid_session has answered no for an expired session record, which is
\* still in place
C16_Witness ==
    /\ call.op = "has_valid_session"
    /\ call.at = now
    /\ ~call.valid
    /\ sessionFile.kind = "json"
    /\ now > Val(sessionFile.expires_at)

\* the state holds what one extraction over a rendered page returned
Extracted == call.op \in {"scrape_article", "scrape_article_sync"}

\* position_in_article counts 0, 1, 2, ... along the list
DensePositions(contents) ==
    \A i \in 1..Len(contents) : contents[i].position_in_article = i - 1

\* the block a reference belongs to: tiktok, instagram, twitter, youtube,
\* then screenshots
BlockOf(c) ==
    IF c.content_type = "screenshot" THEN 5
    ELSE IF c.platform = "tiktok" THEN 1
    ELSE IF c.platform = "instagram" THEN 2
    ELSE IF c.platform = "twitter" THEN 3
    ELSE 4

BlockOrdered(contents) ==
    \A i, j \in 1..Len(contents) :
        i < j => BlockOf(contents[i]) <= BlockOf(contents[j])

\* the references _extract_social_contents takes from site-hosted video
\* embeds: one per distinct embed src, ahead of every other reference
HostedEmbeds(html) ==
    Cardinality({html[i].url : i \in {k \in 1..Len(html) :
                     html[k].tag = "iframe" /\ html[k].url \in re_sge_embed}})

C18_Original ==
    Extracted =>
        \A i, j \in 1..Len(call.social_contents) :
            (i < j /\ call.social_contents[i].url # "")
                => call.social_contents[i].url # call.social_contents[j].url

\* the first non-empty value of the title chain
ExpectedTitle(page) ==
    IF page.post_title.kind = "str" /\ page.post_title.s # ""
    THEN page.post_title.s
    ELSE IF page.h1 # None /\ Strip(Val(page.h1)) # ""
    THEN Strip(Val(page.h1))
    ELSE IF page.title_tag # None /\ Strip(Val(page.title_tag)) # ""
    THEN Strip(Val(page.title_tag))
    ELSE "Untitled"

\* C20 as stated: every extracted article has a non-empty title, the first
\* non-empty value of embedded-state title, first <h1> text, <title> text,
\* "Untitled"; an empty or null embedded-state title does not stop the chain.
C20_Original ==
    Extracted => call.title = Str(ExpectedTitle(call.page))

\* the URL is a page of the configured site: the base URL alone or followed
\* by a path
UnderBase(url) ==
    /\ url # <<>> /\ url[1] = BASE_URL
    /\ Len(url) > 1 => url[2] \in {"/", "/a-real-post", "/apps", "/category/",
                                   "/Tag/", "/sitemap"}
    /\ \A i \in 2..Len(url) : url[i] # BASE_URL

\* the acceptance rule: under the base domain, not the bare homepage, no
\* deny-listed fragment, path not a deny-listed exact path
Acceptable(url) ==
    /\ UnderBase(url)
    /\ RStripSlash(url) # <<BASE_URL>>
    /\ \A pattern \in exclude_patterns : ~Contains(Lower(url), pattern)
    /\ RStripSlash(SubSeq(url, 2, Len(url))) \notin exclude_exact

\* the entries a discovery call was given
Listed == UNION {Range(parse_urls_with_dates(call.responses[i])) :
                    i \in {j \in Sitemaps : call.responses[j] # FetchFailed}}

\* C19 as stated: discovery returns exactly the listed URLs that pass the
\* acceptance rule; discovery for a date applies the same rule to the
\* entries last modified on that date.
C19_Original ==
    /\ call.op = "get_all_article_urls"
        => call.urls = {e.loc : e \in {x \in Listed : Acceptable(x.loc)}}
    /\ call.op = "get_article_urls_for_date"
        => call.urls = {e.loc : e \in {x \in Listed :
                            /\ Acceptable(x.loc)
                            /\ x.lastmod = Some(call.target_date)}}


\* C21: the extracted tags list holds no string twice and keeps first-seen
\* order: the embedded-state tag names followed by the /tag/ link texts,
\* every later duplicate removed (duplicates inside the embedded array
\* included), and it is absent when that list is empty.
RECURSIVE FirstSeen(_)
FirstSeen(s) ==
    IF s = <<>> THEN <<>>
    ELSE LET init == FirstSeen(SliceTo(s, Len(s) - 1))
         IN  IF s[Len(s)] \in Range(init) THEN init ELSE Append(init, s[Len(s)])
NonEmptyTexts(texts) ==
    Filter([i \in 1..Len(texts) |-> Strip(texts[i])], TagNames)
ExpectedTags(page) ==
    LET all == FirstSeen(EmbeddedTags(page.post_tags) \o NonEmptyTexts(page.tag_links))
    IN  IF all = <<>> THEN None ELSE Some(all)
C21_Original ==
    call.op \in {"scrape_article", "scrape_article_sync"}
        => call.tags = ExpectedTags(call.page)


\* C22: every article's upsert and reference replacement is committed as
\* its own unit; an exception later in the run (a later article's
\* persistence error, a failure finalizing the session row, a failed final
\* commit) rolls back only the unit in progress, so every article the run
\* saved before it is still stored when the run has ended.
C22_Original ==
    \A p \in Procs :
        run[p].pc = "done"
        => \A x \in SgeIds : run[p].saved[x] # None => Exists(articles, x)


\* C23: the inter-article delay elapses after every processed URL before
\* the next render starts, whatever the outcome of that URL (persisted,
\* skipped by date, render returned nothing, exception): a render that is
\* not the first of its run starts only after the previous iteration slept.
C23_Original ==
    [][\A p \in Procs :
          (Len(run'[p].rendered) > Len(run[p].rendered) /\ run[p].rendered # <<>>)
          => run[p].slept]_vars


\* the discovered URLs whose slug was not stored when the run started
Remaining(r) ==
    Filter(r.article_urls,
           {u \in Urls : extract_slug_from_url(u) \notin r.existing_slugs})

\* C24: a run never renders a URL whose slug is already stored when the run
\* starts, and with limit N, for every non-negative N, it renders at most N
\* URLs, which are the first N of the remaining URLs in discovery order.
C24_Original ==
    \A p \in Procs :
        /\ \A k \in 1..Len(run[p].rendered) :
              extract_slug_from_url(run[p].rendered[k]) \notin run[p].existing_slugs
        /\ run[p].limit # None
           => /\ Len(run[p].rendered) <= Val(run[p].limit)
              /\ run[p].rendered
                   = SliceTo(SliceTo(Remaining(run[p]), Val(run[p].limit)),
                             Len(run[p].rendered))


ListedBy(responses) ==
    UNION {Range(responses[i].entries) :
              i \in {j \in Sitemaps : responses[j].kind = "xml"}}

\* C27: a run performs the date-filtered discovery first and the full
\* discovery if and only if the date-filtered result is empty; articlesFound
\* is the size of whichever result is used; an entry without lastmod is
\* never part of the date-filtered result.
C27_DatedThenFull ==
    call.op = "discover"
    => /\ call.again # None <=> call.dated = {}
       /\ call.dated # {} => call.article_urls = call.dated
       /\ call.dated = {}
          => call.article_urls
               = {e.loc : e \in {x \in ListedBy(Val(call.again)) :
                                    _is_article_url(x.loc)}}
       /\ call.articles_found = Cardinality(call.article_urls)
       /\ \A u \in call.dated :
              \E e \in ListedBy(call.responses) :
                  e.loc = u /\ e.lastmod = Some(call.target_date)

\* the date filter found nothing although an article entry without lastmod
\* is listed, and the full discovery that followed found it
C27_Witness ==
    /\ call.op = "discover"
    /\ call.dated = {}
    /\ call.again # None
    /\ call.articles_found > 0
    /\ \E e \in ListedBy(call.responses) :
          e.lastmod = None /\ e.loc \in call.article_urls

\* the date-filtered discovery found something and was used
C27_WitnessDated ==
    /\ call.op = "discover"
    /\ call.dated # {}
    /\ call.again = None
    /\ call.articles_found = Cardinality(call.dated)

\* C28: whichever sitemaps fail to be fetched or parsed, discovery does not
\* raise and returns exactly the union of the accepted article URLs of the
\* sitemaps that succeeded (nothing when all fail); a sitemap failure alone
\* never makes the run end as failed.
C28_FailuresTolerated ==
    /\ call.op = "get_all_article_urls"
       => /\ ~call.raised
          /\ call.urls = {e.loc : e \in {x \in ListedBy(call.responses) :
                                            _is_article_url(x.loc)}}
    /\ call.op = "get_article_urls_for_date"
       => /\ ~call.raised
          /\ call.urls = {e.loc : e \in {x \in ListedBy(call.responses) :
                                            /\ _is_article_url(x.loc)
                                            /\ x.lastmod = Some(call.target_date)}}
    /\ call.op = "discover" => call.status # "failed"

\* one sitemap failed to be fetched, another answered, and the discovery
\* returned the article URLs of the one that answered
C28_Witness ==
    /\ call.op \in {"get_all_article_urls", "get_article_urls_for_date"}
    /\ \E i \in Sitemaps : call.responses[i] = FetchFailed
    /\ \E i \in Sitemaps : call.responses[i].kind = "xml"
    /\ call.urls # {}


\* C25: at most one render is executing at any time; the renders of
\* overlapping runScrape invocations and of scrapeSingleArticle calls queue
\* for the one worker.
C25_OneRenderAtATime ==
    /\ Cardinality(Rendering) <= 1
    /\ \A p \in DOMAIN run :
          run[p].pc \in {"queued", "rendering"}
          => run[p].i \in 1..Len(run[p].urls_to_scrape)

\* a render of a run is executing while a render of a single-article call
\* waits for the worker
C25_Witness ==
    \E p, q \in DOMAIN run :
        /\ run[p].pc = "rendering" /\ ~run[p].single
        /\ run[q].pc = "queued" /\ run[q].single

\* a render of one run is executing while a render of another run waits
C25_WitnessRuns ==
    \E p, q \in DOMAIN run :
        /\ run[p].pc = "rendering" /\ ~run[p].single
        /\ run[q].pc = "queued" /\ ~run[q].single

\* a committed completed row with a success exists for date d
HasQualifyingRow(d) ==
    \E i \in DOMAIN sessions :
        /\ sessions[i].committed
        /\ sessions[i].target_date = d
        /\ sessions[i].status = "completed"
        /\ sessions[i].articles_success > 0

\* another invocation of run_scrape for date d has started and not ended
OtherRunInProgress(p, d) ==
    \E q \in DOMAIN run \ {p} :
        /\ run[q].pc \in {"created", "loop", "queued", "rendering"}
        /\ ~run[q].single
        /\ run[q].target_date = d

\* C26: the idempotency gate is the only guard between runs for the same
\* date. A run for d without force that starts while another run for d has
\* not finalized is not stopped by the gate: it is skipped only when a
\* committed successful row for d exists, and otherwise creates its own
\* running session row and goes on to render.
C26_GateIsOnlyGuard ==
    [][\A p \in DOMAIN run :
          (/\ run[p].pc = "idle" /\ run'[p].pc # "idle"
           /\ ~run'[p].single /\ ~run'[p].force
           /\ OtherRunInProgress(p, run'[p].target_date))
          => IF HasQualifyingRow(run'[p].target_date)
             THEN run'[p].outcome.status = "skipped"
             ELSE /\ run'[p].pc = "created"
                  /\ run'[p].sid \notin DOMAIN sessions
                  /\ \A q \in DOMAIN run \ {p} : run[q].sid # run'[p].sid
                  /\ sessions'[run'[p].sid].status = "running"
                  /\ sessions'[run'[p].sid].target_date = run'[p].target_date]_vars

\* two runs for the same date, neither forced, each with its own running
\* row: one has rendered a URL, the other one's render is executing
C26_Witness ==
    \E p, q \in DOMAIN run :
        /\ p # q
        /\ ~run[p].single /\ ~run[q].single
        /\ ~run[p].force /\ ~run[q].force
        /\ run[p].target_date = run[q].target_date
        /\ run[p].pc = "loop" /\ run[p].rendered # <<>>
        /\ run[q].pc = "rendering"
        /\ run[p].sid # run[q].sid
        /\ sessions[run[p].sid].status = "running"
        /\ sessions[run[q].sid].status = "running"


\* C30: once a logout has taken the session from established to none, no
\* later render is seeded with the stored cookies and local storage of the
\* logged-out session until a new session is established; this holds for
\* both ways of ending a session, the auth logout and clearSession. Here:
\* a single-article render that directly follows the end of an established
\* session is not seeded.
C30_Original ==
    [][(/\ Called("scrape_single_article")
        /\ call.op \in {"logout", "clear_session"}
        /\ LiveSession(call.before.sessionFile, call.at))
       => ~call'.seeded]_vars

=============================================================================
